---------------------------- MODULE Spec2Model ----------------------------
(***************************************************************************)
(* Drift detection (scripts/detect_drift.py) and risk forecasting          *)
(* (services/risk_forecasting.py) of RegScale CCM.                         *)
(*                                                                         *)
(* Numbers.  Metric values are Python ints (fetch_snapshots returns        *)
(* List[(date, int)]).  The statistics of a window are Python floats; they *)
(* are modelled by the exact rationals they approximate, kept as integer   *)
(* numerators over a power of `window`:                                    *)
(*     mean = MeanNum / window          var = VarNum / window^3            *)
(*     value - mean = DevNum / window   z^2 = DevNum^2 * window / VarNum   *)
(* The float result of a comparison differs from the exact one only when   *)
(* the two sides are exactly equal and some intermediate float was         *)
(* rounded; there the outcome depends on the rounding errors of the        *)
(* interpreter's sum(), pow and sqrt, and is a nondeterministic choice,    *)
(* made once for given operands (fp): floats are deterministic.            *)
(* Dates are day ordinals (datetime.date.toordinal), so that adding a      *)
(* timedelta of k days is adding k.                                        *)
(***************************************************************************)
EXTENDS Integers, Sequences, FiniteSets, TLC

VARIABLES
    pc,            \* position of the running call
    err,           \* exception that ended the call, NoError if none
    snapshots,     \* input of compute_time_series: sequence of <<date, value>>
    dates,         \* compute_time_series output / detect input
    values,        \* compute_time_series output / detect or moving-average input
    window,        \* window argument
    threshold,     \* threshold argument, a rational [n, d]
    i,             \* loop index of detect_drift_zscore (0-based)
    buf,           \* the deque of detect_drift_zscore
    mean,          \* local `mean` of detect_drift_zscore, Unbound before line 92
    var,           \* local `var` of detect_drift_zscore, Unbound before line 93
    drift_points,  \* result list of detect_drift_zscore
    alerts,        \* result of generate_alerts
    ma,            \* result of simple_moving_average
    control_id,    \* control_id argument of forecast_risk / simulate_policy_change
    days,          \* days / baseline_days argument
    horizon,       \* forecast_horizon / horizon argument
    today,         \* datetime.date.today(), a day ordinal
    history,       \* history fetched by the caller's forecast_risk call
    forecasts,     \* result of the caller's forecast_risk call
    base_forecasts,\* base_forecasts of simulate_policy_change
    simulated,     \* result of simulate_policy_change
    adjustment,    \* adjustment_function of simulate_policy_change
    fp,            \* what the interpreter's float arithmetic gave at the ties met
    other          \* frame of a detect_drift_zscore call of another thread

driftVars == <<snapshots, dates, threshold, i, buf, mean, var, drift_points,
               alerts, fp, other>>
riskVars == <<ma, control_id, days, horizon, today, history, forecasts,
              base_forecasts, simulated, adjustment>>
vars == <<pc, err, values, window, driftVars, riskVars>>

----------------------------------------------------------------------------
(* Bounds of the explored inputs *)

MaxLen == 5
MaxWindow == 5

Rat(n, d) == [n |-> n, d |-> d]

\* metric values, thresholds (two invalid ones, two valid ones) and windows tried
DriftValues == {0, 1, 2}
Thresholds == {Rat(-1, 2), Rat(0, 1), Rat(1, 2), Rat(2, 1)}
Windows == -1 .. MaxWindow
SeqsUpTo(S, n) == UNION {[1..k -> S] : k \in 0..n}

\* defaults of detect_drift_zscore, with which run_drift_detection calls it
DefaultWindow == 7
DefaultThreshold == Rat(2, 1)

\* the series of the worked example (seven 5s, then 20) and a series whose
\* last value lies exactly 2 std from the mean of its window of 5
ExampleSeries == {<<5, 5, 5, 5, 5, 5, 5, 20>>, <<4, 4, 4, 4, 7>>}
ExampleWindows == {5, DefaultWindow}

\* inputs of two concurrent calls of detect_drift_zscore
CallSeries == {<<>>, <<0, 1>>, <<1, 0, 1>>, <<0, 1, 1, 0>>, <<0, 0, 0, 1, 0>>,
               <<0, 0, 2, 0, 1>>}
CallWindows == {2, 5}
CallThresholds == {Rat(1, 2), Rat(2, 1)}

----------------------------------------------------------------------------
(* Arithmetic helpers *)

Abs(x) == IF x < 0 THEN -x ELSE x

RECURSIVE Gcd(_, _)
Gcd(a, b) == IF b = 0 THEN a ELSE Gcd(b, a % b)

RECURSIVE IsPow2(_)
IsPow2(n) == IF n = 1 THEN TRUE
             ELSE IF n < 1 \/ n % 2 # 0 THEN FALSE
             ELSE IsPow2(n \div 2)

\* n/d (d > 0) is a binary fraction, i.e. a float holds it exactly
Dyadic(n, d) == IsPow2(d \div Gcd(Abs(n), d))

RECURSIVE SumSeq(_)
SumSeq(s) == IF s = <<>> THEN 0 ELSE Head(s) + SumSeq(Tail(s))

RECURSIVE ISqrtIn(_, _, _)
ISqrtIn(n, lo, hi) ==
    IF lo = hi THEN lo
    ELSE LET mid == (lo + hi + 1) \div 2
         IN IF mid * mid <= n THEN ISqrtIn(n, mid, hi) ELSE ISqrtIn(n, lo, mid - 1)

\* floor of the square root
ISqrt(n) == ISqrtIn(n, 0, IF n < 46340 THEN n ELSE 46340)


----------------------------------------------------------------------------
(* scripts/detect_drift.py *)

\* dates, values = zip(*snapshots)
Unzip(snaps) == [dates  |-> [k \in 1..Len(snaps) |-> snaps[k][1]],
                 values |-> [k \in 1..Len(snaps) |-> snaps[k][2]]]

\* DequeAppend without maxlen: nothing is ever dropped
DequeAppendNoEvict(b, x, m) == Append(b, x)

\* deque(maxlen = m).append(x): the oldest element is dropped when full
DequeAppend(b, x, m) ==
    IF m = 0 THEN b
    ELSE IF Len(b) = m THEN Append(Tail(b), x)
    ELSE Append(b, x)

\* mean = sum(buf) / window             (mean = MeanNum / window)
MeanNum(b) == SumSeq(b)

\* var = sum((x - mean) ** 2 for x in buf) / window    (var = VarNum / w^3)
VarNum(b, w) ==
    SumSeq([k \in 1..Len(b) |-> (w * b[k] - MeanNum(b)) * (w * b[k] - MeanNum(b))])

\* std = var ** 0.5 ; std == 0
StdIsZero(b, w) == VarNum(b, w) = 0

\* values[i] - mean                    (= DevNum / window)
DevNum(b, w, v) == w * v - MeanNum(b)

\* z_score ** 2 = ((v - mean) / std) ** 2 = DevNum^2 w / VarNum, in lowest terms
ZSq(b, w, v) ==
    LET n == DevNum(b, w, v) * DevNum(b, w, v) * w
        d == VarNum(b, w)
    IN Rat(n \div Gcd(n, d), d \div Gcd(n, d))

\* abs(z_score) > threshold, in exact arithmetic
AbsZAbove(b, w, v, t) ==
    \/ t.n < 0
    \/ t.d * t.d * ZSq(b, w, v).n > t.n * t.n * ZSq(b, w, v).d

\* abs(z_score) = threshold, in exact arithmetic
AbsZEquals(b, w, v, t) ==
    /\ t.n >= 0
    /\ t.d * t.d * ZSq(b, w, v).n = t.n * t.n * ZSq(b, w, v).d

\* no float of the computation of z_score was rounded: mean and var are
\* binary fractions (then every deviation, square and partial sum is one,
\* and at a tie std and z_score are too)
FloatExact(b, w) ==
    /\ Dyadic(MeanNum(b), w)
    /\ Dyadic(VarNum(b, w), w * w * w)

\* the outcomes of `abs(z_score) > threshold` on floats: the exact one,
\* except at an exact tie computed with rounded floats, where the rounding
\* errors decide ([0,0,2,0,1], window 5: z_score = 0.5000000000000001 > 0.5,
\* and [2,3,3,3,3]: 3 - 2.8 = 0.20000000000000018, z_score =
\* 0.5000000000000004 > 0.5; but [0,0,0,1,0] gives exactly -0.5)
FlagOutcomes(b, w, v, t) ==
    IF AbsZEquals(b, w, v, t) /\ ~FloatExact(b, w)
    THEN {TRUE, FALSE}
    ELSE {AbsZAbove(b, w, v, t)}

\* 100 z_score lies exactly half way between two integers
RoundIsTie(b, w, v) ==
    LET n == 40000 * ZSq(b, w, v).n
        d == ZSq(b, w, v).d
    IN /\ n % d = 0
       /\ ISqrt(n \div d) * ISqrt(n \div d) = n \div d
       /\ ISqrt(n \div d) % 2 = 1

\* Round2 that cuts the third decimal off instead of rounding
Round2Truncate(b, w, v) ==
    LET x == ISqrt((40000 * ZSq(b, w, v).n) \div ZSq(b, w, v).d)
    IN {IF DevNum(b, w, v) < 0 THEN -(x \div 2) ELSE x \div 2}

\* the outcomes of round(z_score, 2), in hundredths: the integer nearest to
\* 100 z_score; half way, the even one when z_score is the exact quotient
Round2(b, w, v) ==
    LET x == ISqrt((40000 * ZSq(b, w, v).n) \div ZSq(b, w, v).d)
        lo == (x - 1) \div 2
        hi == (x + 1) \div 2
        mags == IF ~RoundIsTie(b, w, v) THEN {hi}
                ELSE IF ~FloatExact(b, w) THEN {lo, hi}
                ELSE IF lo % 2 = 0 THEN {lo} ELSE {hi}
    IN {IF DevNum(b, w, v) < 0 THEN -r ELSE r : r \in mags}

\* the floats of one build are a function of the operands: what the
\* comparison and the rounding gave for a buffer and a threshold is what they
\* give whenever the same buffer and threshold come again (memo holds the
\* outcomes that were not determined by the exact values)
FloatKey(b, t) == <<b, t>>

FloatChoices(b, w, v, t) ==
    {[flag |-> f, z |-> z] : f \in FlagOutcomes(b, w, v, t), z \in Round2(b, w, v)}

FloatOutcomes(memo, b, w, v, t) ==
    IF FloatKey(b, t) \in DOMAIN memo THEN {memo[FloatKey(b, t)]}
    ELSE FloatChoices(b, w, v, t)

\* the exact values leave the comparison or the rounding open
Undetermined(b, w, v, t) ==
    /\ ~FloatExact(b, w)
    /\ AbsZEquals(b, w, v, t) \/ RoundIsTie(b, w, v)

Remember(memo, b, w, v, t, o) ==
    IF Undetermined(b, w, v, t) /\ FloatKey(b, t) \notin DOMAIN memo
    THEN (FloatKey(b, t) :> o) @@ memo
    ELSE memo

\* a local that is not bound yet
Unbound == Rat(0, 0)

\* NewDeque that hands out a buffer that is already alive
NewDequeShared(alive) == alive

\* deque(maxlen=window), line 87: a new empty buffer, whatever buffer of
\* an earlier or a concurrent call is alive
NewDeque(alive) == <<>>

\* (dates[i], values[i], round(z_score, 2))
DriftPoint(d, v, z) == <<d, v, z>>

\* AlertMsg that interpolates z where the value belongs
AlertMsgZForValue(p) == [date |-> p[1], value |-> p[3], z |-> p[3]]

\* the f-string of generate_alerts, by the fields it interpolates
AlertMsg(p) == [date |-> p[1], value |-> p[2], z |-> p[3]]

\* no exception / the exception of type e that ended the call of op
NoError == [op |-> "", type |-> "none"]
Raise(op, e) ==
    /\ pc' = "raised"
    /\ err' = [op |-> op, type |-> e]

\* compute_time_series(snapshots)
ComputeTimeSeries ==
    /\ pc = "compute_time_series"
    /\ IF snapshots = <<>>
       THEN /\ Raise("compute_time_series", "ValueError")   \* unpacking zip() of nothing
            /\ UNCHANGED <<dates, values>>
       ELSE /\ dates' = Unzip(snapshots).dates
            /\ values' = Unzip(snapshots).values
            /\ pc' = "detect"
            /\ UNCHANGED err
    /\ UNCHANGED <<snapshots, window, threshold, i, buf, mean, var, drift_points,
                   alerts, fp, other>>
    /\ UNCHANGED riskVars

\* detect_drift_zscore, lines 86-87: drift_points = []; buf = deque(maxlen=window)
DetectBegin ==
    /\ pc = "detect"
    /\ IF window < 0
       THEN /\ Raise("detect_drift_zscore", "ValueError")   \* maxlen must be non-negative
            /\ UNCHANGED <<i, buf, drift_points>>
       ELSE /\ drift_points' = <<>>
            /\ buf' = NewDeque(buf)
            /\ i' = 0
            /\ pc' = "scan"
            /\ UNCHANGED err
    /\ UNCHANGED <<snapshots, dates, values, window, threshold, mean, var, alerts,
                   fp, other>>
    /\ UNCHANGED riskVars

\* StepKind without the `std == 0` test: the division by std raises
StepKindNoStdTest(b, w) ==
    IF Len(b) < w THEN "short"
    ELSE IF w = 0 \/ StdIsZero(b, w) THEN "div_by_zero"
    ELSE "decide"

\* StepKind without the `len(buf) < window` test
StepKindNoFloor(b, w) ==
    IF w = 0 THEN "div_by_zero"
    ELSE IF StdIsZero(b, w) THEN "zero_std"
    ELSE "decide"

\* what lines 90-97 do with the buffer after the append:
\*   "short"        len(buf) < window: continue
\*   "div_by_zero"  sum(buf) / window with window = 0
\*   "zero_std"     std == 0: continue
\*   "decide"       z_score is computed and compared
StepKind(b, w) ==
    IF Len(b) < w THEN "short"
    ELSE IF w = 0 THEN "div_by_zero"
    ELSE IF StdIsZero(b, w) THEN "zero_std"
    ELSE "decide"

\* detect_drift_zscore, one iteration of the loop of lines 88-100
DetectStep ==
    /\ pc = "scan"
    /\ i < Len(values)
    /\ LET v == values[i + 1]
           b == DequeAppend(buf, v, window)
       IN /\ buf' = b
          /\ CASE StepKind(b, window) = "short" ->
                  /\ i' = i + 1
                  /\ UNCHANGED <<pc, err, mean, var, fp, drift_points>>
               [] StepKind(b, window) = "div_by_zero" ->
                  /\ Raise("detect_drift_zscore", "ZeroDivisionError")
                  /\ UNCHANGED <<i, mean, var, fp, drift_points>>
               [] StepKind(b, window) = "zero_std" ->
                  /\ mean' = Rat(MeanNum(b), window)
                  /\ var' = Rat(VarNum(b, window), window * window * window)
                  /\ i' = i + 1
                  /\ UNCHANGED <<pc, err, fp, drift_points>>
               [] StepKind(b, window) = "decide" ->
                  \E o \in FloatOutcomes(fp, b, window, v, threshold) :
                      /\ mean' = Rat(MeanNum(b), window)
                      /\ var' = Rat(VarNum(b, window), window * window * window)
                      /\ fp' = Remember(fp, b, window, v, threshold, o)
                      /\ drift_points' =
                            IF o.flag
                            THEN Append(drift_points, DriftPoint(dates[i + 1], v, o.z))
                            ELSE drift_points
                      /\ i' = i + 1
                      /\ UNCHANGED <<pc, err>>
    /\ UNCHANGED <<snapshots, dates, values, window, threshold, alerts, other>>
    /\ UNCHANGED riskVars

\* detect_drift_zscore, line 101: return drift_points
DetectReturn ==
    /\ pc = "scan"
    /\ i = Len(values)
    /\ pc' = "generate_alerts"
    /\ UNCHANGED <<err, snapshots, dates, values, window, threshold, i, buf,
                   mean, var, drift_points, alerts, fp, other>>
    /\ UNCHANGED riskVars

\* generate_alerts(drift_points)
GenerateAlerts ==
    /\ pc = "generate_alerts"
    /\ alerts' = [k \in 1..Len(drift_points) |-> AlertMsg(drift_points[k])]
    /\ pc' = "done_drift"
    /\ UNCHANGED <<err, snapshots, dates, values, window, threshold, i, buf,
                   mean, var, drift_points, fp, other>>
    /\ UNCHANGED riskVars

\* the frame of a call that was not made
NoCall == [pc |-> "idle", dates |-> <<>>, values |-> <<>>, window |-> 0,
           threshold |-> Rat(2, 1), i |-> 0, buf |-> <<>>, mean |-> Unbound,
           var |-> Unbound, drift_points |-> <<>>]

\* detect_drift_zscore called by another thread, lines 86-87; its locals
\* live in the frame `other`
OtherDetectBegin ==
    /\ other.pc = "detect"
    /\ other' = IF other.window < 0
                THEN [other EXCEPT !.pc = "raised"]
                ELSE [other EXCEPT !.pc = "scan", !.i = 0, !.buf = NewDeque(buf),
                                   !.drift_points = <<>>]
    /\ UNCHANGED <<pc, err, values, window, snapshots, dates, threshold, i, buf,
                   mean, var, drift_points, alerts, fp>>
    /\ UNCHANGED riskVars

\* the other thread's call, one iteration of the loop of lines 88-100
OtherDetectStep ==
    /\ other.pc = "scan"
    /\ other.i < Len(other.values)
    /\ LET v == other.values[other.i + 1]
           w == other.window
           b == DequeAppend(other.buf, v, w)
       IN CASE StepKind(b, w) = "short" ->
                  /\ other' = [other EXCEPT !.buf = b, !.i = @ + 1]
                  /\ UNCHANGED fp
            [] StepKind(b, w) = "div_by_zero" ->
                  /\ other' = [other EXCEPT !.buf = b, !.pc = "raised"]
                  /\ UNCHANGED fp
            [] StepKind(b, w) = "zero_std" ->
                  /\ other' = [other EXCEPT !.buf = b, !.i = @ + 1,
                                            !.mean = Rat(MeanNum(b), w),
                                            !.var = Rat(VarNum(b, w), w * w * w)]
                  /\ UNCHANGED fp
            [] StepKind(b, w) = "decide" ->
                  \E o \in FloatOutcomes(fp, b, w, v, other.threshold) :
                      /\ fp' = Remember(fp, b, w, v, other.threshold, o)
                      /\ other' =
                            [other EXCEPT
                               !.buf = b, !.i = @ + 1,
                               !.mean = Rat(MeanNum(b), w),
                               !.var = Rat(VarNum(b, w), w * w * w),
                               !.drift_points =
                                  IF o.flag
                                  THEN Append(@, DriftPoint(other.dates[other.i + 1],
                                                            v, o.z))
                                  ELSE @]
    /\ UNCHANGED <<pc, err, values, window, snapshots, dates, threshold, i, buf,
                   mean, var, drift_points, alerts>>
    /\ UNCHANGED riskVars

\* the other thread's call, line 101
OtherDetectReturn ==
    /\ other.pc = "scan"
    /\ other.i = Len(other.values)
    /\ other' = [other EXCEPT !.pc = "returned"]
    /\ UNCHANGED <<pc, err, values, window, snapshots, dates, threshold, i, buf,
                   mean, var, drift_points, alerts, fp>>
    /\ UNCHANGED riskVars

----------------------------------------------------------------------------
(* services/risk_forecasting.py                                             *)
(* Risk scores are floats in [0, 1]; they are modelled in points, 10000     *)
(* points = 1.0, so that round(x, 3) (to a multiple of 10 points) acts.     *)
(* random.uniform is a choice from a small set of points.                   *)

\* min(7, len(scores)) in forecast_risk; default window of simple_moving_average
ForecastWindow == 7

MaxDays == 2
MaxHorizon == 3
MaxMALen == 3

Controls == {<<"A", "C", "-", "1">>, <<"A", "C", "-", "2">>}
DaysTried == (0 .. MaxDays) \cup {ForecastWindow + 1}
Horizons == -1 .. MaxHorizon
Todays == {739349}                  \* 2025-04-08
Noises == {-500, 263}               \* random.uniform(-0.05, 0.05)
Jitters == {-200, 200}              \* random.uniform(-0.02, 0.02)
Adjustments == {"x*0.9", "x*10", "x-5"}
MAValues == {3, 5, 6}

Max0(n) == IF n < 0 THEN 0 ELSE n

\* min(max(x, 0.0), 1.0) for a fraction x of points
Clamp(x) ==
    IF x.n < 0 THEN Rat(0, 1)
    ELSE IF x.n > 10000 * x.d THEN Rat(10000, 1)
    ELSE x

\* the outcomes of round(x, 3) in points: the nearest multiple of 10 points;
\* a decimal half way is rounded by the float's binary expansion, either way
Round3(x) ==
    LET f == x.n \div (10 * x.d)
        r == x.n - f * 10 * x.d
    IN IF 2 * r < 10 * x.d THEN {10 * f}
       ELSE IF 2 * r > 10 * x.d THEN {10 * (f + 1)}
       ELSE {10 * f, 10 * (f + 1)}

\* the sequences whose k-th element is drawn from opts[k]
Choices(opts) ==
    {f \in [DOMAIN opts -> UNION {opts[k] : k \in DOMAIN opts}] :
        \A k \in DOMAIN opts : f[k] \in opts[k]}

\* base = 0.3 if control_id.endswith('1') else 0.5
BaseScore(c) == IF c[Len(c)] = "1" THEN 3000 ELSE 5000

\* the draws of noise for d days: any for the two oldest days, the later
\* days repeat the second
NoiseDraws(d) ==
    {noise \in [1..Max0(d) -> Noises] : \A k \in 3..d : noise[k] = noise[2]}

\* fetch_historical_risk(control_id, days), noise[k] the k-th draw
FetchHistoricalRisk(c, d, t, noise) ==
    [k \in 1..Max0(d) |->
        <<t - (d - k + 1), Clamp(Rat(BaseScore(c) + noise[k], 1)).n>>]

\* values[-w:]
LastSlice(vals, w) ==
    IF w > 0 THEN SubSeq(vals, Max0(Len(vals) - w) + 1, Len(vals))
    ELSE IF -w >= Len(vals) THEN <<>>
    ELSE SubSeq(vals, -w + 1, Len(vals))

\* EffectiveWindow without the shrink of lines 73-74
EffectiveWindowNoShrink(vals, w) == w

\* the window simple_moving_average divides by (lines 73-74)
EffectiveWindow(vals, w) == IF Len(vals) < w THEN Len(vals) ELSE w

\* simple_moving_average(values, window): ok = FALSE is ZeroDivisionError
SimpleMovingAverage(vals, w) ==
    LET ew == EffectiveWindow(vals, w)
        total == SumSeq(LastSlice(vals, ew))
    IN IF ew = 0 THEN [ok |-> FALSE, val |-> Rat(0, 1)]
       ELSE IF ew < 0 THEN [ok |-> TRUE, val |-> Rat(-total, -ew)]
       ELSE [ok |-> TRUE, val |-> Rat(total, ew)]

Scores(hist) == [k \in 1..Len(hist) |-> hist[k][2]]

\* base_forecast of forecast_risk (line 95)
BaseForecast(hist) ==
    SimpleMovingAverage(Scores(hist),
                        IF ForecastWindow < Len(hist) THEN ForecastWindow ELSE Len(hist))

\* Pred with a jitter three times as wide
PredWideJitter(base, j) == Clamp(Rat(base.n + 3 * j * base.d, base.d))

\* pred of line 103 for the jitter j
Pred(base, j) == Clamp(Rat(base.n + j * base.d, base.d))

\* Forecasts with range(forecast_horizon) in place of range(1, forecast_horizon + 1)
ForecastsFromLastDate(hist, h, jit) ==
    {[k \in 1..Max0(h) |-> <<hist[Len(hist)][1] + k - 1, r[k]>>] :
        r \in Choices([k \in 1..Max0(h) |->
                          Round3(Pred(BaseForecast(hist).val, jit[k]))])}

\* the lists lines 97-105 of forecast_risk can build with the jitters jit
Forecasts(hist, h, jit) ==
    {[k \in 1..Max0(h) |-> <<hist[Len(hist)][1] + k, r[k]>>] :
        r \in Choices([k \in 1..Max0(h) |->
                          Round3(Pred(BaseForecast(hist).val, jit[k]))])}

\* adjustment_function(risk), risk in points
Adjust(f, risk) ==
    CASE f = "x*0.9" -> Rat(9 * risk, 10)
      [] f = "x*10" -> Rat(10 * risk, 1)
      [] f = "x-5" -> Rat(risk - 50000, 1)

\* SimRisk without the clamp
SimRiskNoClamp(f, risk) == Adjust(f, risk)

\* sim_risk of line 129
SimRisk(f, risk) == Clamp(Adjust(f, risk))

\* Simulated with the values attached to the dates in reverse order
SimulatedReversed(base, f) ==
    {[k \in 1..Len(base) |-> <<base[k][1], r[Len(base) + 1 - k]>>] :
        r \in Choices([k \in 1..Len(base) |-> Round3(SimRisk(f, base[k][2]))])}

\* the lists lines 127-131 of simulate_policy_change can build
Simulated(base, f) ==
    {[k \in 1..Len(base) |-> <<base[k][1], r[k]>>] :
        r \in Choices([k \in 1..Len(base) |-> Round3(SimRisk(f, base[k][2]))])}

\* simple_moving_average(values, window), called on its own
MovingAverage ==
    /\ pc = "simple_moving_average"
    /\ IF SimpleMovingAverage(values, window).ok
       THEN /\ ma' = SimpleMovingAverage(values, window).val
            /\ pc' = "done_ma"
            /\ UNCHANGED err
       ELSE /\ Raise("simple_moving_average", "ZeroDivisionError")
            /\ UNCHANGED ma
    /\ UNCHANGED <<values, window, driftVars, control_id, days, horizon, today,
                   history, forecasts, base_forecasts, simulated, adjustment>>

\* forecast_risk(control_id, days, horizon)
ForecastRisk ==
    /\ pc = "forecast_risk"
    /\ \E noise \in NoiseDraws(days) :
          LET hist == FetchHistoricalRisk(control_id, days, today, noise)
          IN /\ history' = hist
             /\ IF ~BaseForecast(hist).ok
                THEN /\ Raise("forecast_risk", "ZeroDivisionError")
                     /\ UNCHANGED forecasts
                ELSE \E jit \in [1..Max0(horizon) -> Jitters] :
                         /\ forecasts' \in Forecasts(hist, horizon, jit)
                         /\ pc' = "simulate_policy_change"
                         /\ UNCHANGED err
    /\ UNCHANGED <<values, window, driftVars, ma, control_id, days, horizon, today,
                   base_forecasts, simulated, adjustment>>

\* simulate_policy_change(control_id, days, horizon, adjustment_function),
\* called after forecast_risk with the same arguments (as the module's
\* example usage does); its history and base_forecasts are its own
SimulatePolicyChange ==
    /\ pc = "simulate_policy_change"
    /\ \E f \in Adjustments, noise \in NoiseDraws(days) :
          LET hist == FetchHistoricalRisk(control_id, days, today, noise)
          IN /\ adjustment' = f
             /\ IF ~BaseForecast(hist).ok
                THEN /\ Raise("simulate_policy_change", "ZeroDivisionError")
                     /\ UNCHANGED <<base_forecasts, simulated>>
                ELSE \E jit \in [1..Max0(horizon) -> Jitters] :
                         /\ base_forecasts' \in Forecasts(hist, horizon, jit)
                         /\ simulated' \in Simulated(base_forecasts', f)
                         /\ pc' = "done_risk"
                         /\ UNCHANGED err
    /\ UNCHANGED <<values, window, driftVars, ma, control_id, days, horizon, today,
                   history, forecasts>>

----------------------------------------------------------------------------
(* The calls explored *)

DriftIdle ==
    /\ snapshots = <<>>
    /\ dates = <<>>
    /\ threshold = Rat(2, 1)
    /\ i = 0
    /\ buf = <<>>
    /\ mean = Unbound
    /\ var = Unbound
    /\ drift_points = <<>>
    /\ alerts = <<>>
    /\ fp = <<>>
    /\ other = NoCall

RiskIdle ==
    /\ control_id = <<>>
    /\ days = 0
    /\ horizon = 0
    /\ today = 0
    /\ history = <<>>
    /\ forecasts = <<>>
    /\ base_forecasts = <<>>
    /\ simulated = <<>>
    /\ adjustment = "x*0.9"

\* a caller runs compute_time_series, detect_drift_zscore and generate_alerts
\* on a series of daily integer observations
InitDrift ==
    /\ pc = "compute_time_series"
    /\ err = NoError
    /\ \E vs \in SeqsUpTo(DriftValues, MaxLen) :
          snapshots = [k \in 1..Len(vs) |-> <<k, vs[k]>>]
    /\ window \in Windows
    /\ threshold \in Thresholds
    /\ dates = <<>>
    /\ values = <<>>
    /\ i = 0
    /\ buf = <<>>
    /\ mean = Unbound
    /\ var = Unbound
    /\ drift_points = <<>>
    /\ alerts = <<>>
    /\ fp = <<>>
    /\ other = NoCall
    /\ ma = Rat(0, 1)
    /\ RiskIdle

\* the pipeline of run_drift_detection on the example series, with the
\* default window and threshold or a window of 5
InitDriftExample ==
    /\ pc = "compute_time_series"
    /\ err = NoError
    /\ \E vs \in ExampleSeries :
          snapshots = [k \in 1..Len(vs) |-> <<k, vs[k]>>]
    /\ window \in ExampleWindows
    /\ threshold = DefaultThreshold
    /\ dates = <<>>
    /\ values = <<>>
    /\ i = 0
    /\ buf = <<>>
    /\ mean = Unbound
    /\ var = Unbound
    /\ drift_points = <<>>
    /\ alerts = <<>>
    /\ fp = <<>>
    /\ other = NoCall
    /\ ma = Rat(0, 1)
    /\ RiskIdle

\* two threads: one runs the pipeline, the other calls detect_drift_zscore
\* at any moment of it, on the same or on another input
InitCalls ==
    /\ pc = "compute_time_series"
    /\ err = NoError
    /\ \E vs \in CallSeries :
          snapshots = [k \in 1..Len(vs) |-> <<k, vs[k]>>]
    /\ window \in CallWindows
    /\ threshold \in CallThresholds
    /\ dates = <<>>
    /\ values = <<>>
    /\ i = 0
    /\ buf = <<>>
    /\ mean = Unbound
    /\ var = Unbound
    /\ drift_points = <<>>
    /\ alerts = <<>>
    /\ fp = <<>>
    /\ \E vs \in CallSeries, w \in CallWindows, t \in CallThresholds :
          other = [NoCall EXCEPT !.pc = "detect", !.dates = [k \in 1..Len(vs) |-> k],
                                 !.values = vs, !.window = w, !.threshold = t]
    /\ ma = Rat(0, 1)
    /\ RiskIdle

\* a caller runs simple_moving_average on a list of numbers
InitMovingAverage ==
    /\ pc = "simple_moving_average"
    /\ err = NoError
    /\ values \in SeqsUpTo(MAValues, MaxMALen)
    /\ window \in -1 .. ForecastWindow
    /\ ma = Rat(0, 1)
    /\ DriftIdle
    /\ RiskIdle

\* a caller runs forecast_risk and then simulate_policy_change
InitRisk ==
    /\ pc = "forecast_risk"
    /\ err = NoError
    /\ control_id \in Controls
    /\ days \in DaysTried
    /\ horizon \in Horizons
    /\ today \in Todays
    /\ history = <<>>
    /\ forecasts = <<>>
    /\ base_forecasts = <<>>
    /\ simulated = <<>>
    /\ adjustment = "x*0.9"
    /\ values = <<>>
    /\ window = ForecastWindow
    /\ ma = Rat(0, 1)
    /\ DriftIdle

Init == InitDrift \/ InitDriftExample \/ InitCalls \/ InitMovingAverage \/ InitRisk

Next ==
    \/ ComputeTimeSeries
    \/ DetectBegin
    \/ DetectStep
    \/ DetectReturn
    \/ GenerateAlerts
    \/ OtherDetectBegin
    \/ OtherDetectStep
    \/ OtherDetectReturn
    \/ MovingAverage
    \/ ForecastRisk
    \/ SimulatePolicyChange

Spec == Init /\ [][Next]_vars

----------------------------------------------------------------------------
(* Properties of detect_drift_zscore.  They are stated over the series       *)
(* itself (index ranges, sums and sums of squares of a window), not over the *)
(* buffer and the numerators the scan computes.                              *)

\* the trailing window of w values ending at index k (1-based), k >= w
Win(vals, k, w) == SubSeq(vals, k - w + 1, k)

SumSq(s) == SumSeq([k \in 1..Len(s) |-> s[k] * s[k]])

AllEqual(s) == \A a, c \in 1..Len(s) : s[a] = s[c]

\* w^2 (x - mean)^2 and w^2 variance of a window, by sums and sums of squares
DevSqW(win, w, v) == (w * v - SumSeq(win)) * (w * v - SumSeq(win))
VarW(win, w) == w * SumSq(win) - SumSeq(win) * SumSeq(win)

\* |(v - mean) / std| > t, resp. = t, for the window win of w values
ZAbove(win, w, v, t) == t.d * t.d * DevSqW(win, w, v) > t.n * t.n * VarW(win, w)
ZEqual(win, w, v, t) == t.d * t.d * DevSqW(win, w, v) = t.n * t.n * VarW(win, w)

\* r/100 is (v - mean) / std rounded to two decimals
IsRound2(r, win, w, v) ==
    LET a == Abs(r)
    IN /\ r * (w * v - SumSeq(win)) >= 0
       /\ a = 0 \/ (2 * a - 1) * (2 * a - 1) * VarW(win, w) <= 40000 * DevSqW(win, w, v)
       /\ 40000 * DevSqW(win, w, v) <= (2 * a + 1) * (2 * a + 1) * VarW(win, w)

\* the j-th smallest element of a set of integers
Nth(S, j) == CHOOSE k \in S : Cardinality({m \in S : m < k}) = j - 1

DetectReturned == pc \in {"generate_alerts", "done_drift"}
ValidDetectParams == window >= 1 /\ threshold.n > 0

\* index k of the series is the index of a returned drift point
Emitted(k) == \E j \in 1..Len(drift_points) : drift_points[j][1] = dates[k]

\* the indices the specification of detect flags
SpecFlagged ==
    {k \in 1..Len(values) :
        /\ k >= window
        /\ VarW(Win(values, k, window), window) # 0
        /\ ZAbove(Win(values, k, window), window, values[k], threshold)}

\* C1: for window >= 1 and threshold > 0 the result of detect is exactly the
\* points (dates[i], values[i], round(z, 2)), in increasing order of i, of the
\* indices i >= window - 1 whose inclusive trailing window has a non-zero
\* population std and |(values[i] - mean) / std| > threshold.
C1_ExactlyTheFlaggedPoints ==
    (DetectReturned /\ ValidDetectParams) =>
        /\ Len(drift_points) = Cardinality(SpecFlagged)
        /\ \A j \in 1..Len(drift_points) :
              LET k == Nth(SpecFlagged, j)
              IN /\ drift_points[j][1] = dates[k]
                 /\ drift_points[j][2] = values[k]
                 /\ IsRound2(drift_points[j][3], Win(values, k, window),
                             window, values[k])

\* C2: the comparison is strict: an index whose |z| equals the threshold is
\* not flagged, and an index whose |z| is greater than the threshold is.
C2_StrictThreshold ==
    (DetectReturned /\ ValidDetectParams) =>
        \A k \in window..Len(values) :
            VarW(Win(values, k, window), window) # 0 =>
                /\ ZEqual(Win(values, k, window), window, values[k], threshold)
                      => ~Emitted(k)
                /\ ZAbove(Win(values, k, window), window, values[k], threshold)
                      => Emitted(k)

C4_WindowFloor ==
    window >= 1 =>
        /\ \A j \in 1..Len(drift_points) :
              \E k \in window..Len(values) :
                  /\ drift_points[j][1] = dates[k]
                  /\ drift_points[j][2] = values[k]
        /\ (DetectReturned /\ Len(values) < window) => drift_points = <<>>

\* C4 witness: a finished scan with window 3 over a longer series that
\* flagged an index (none of them among the first two).
C4_Witness ==
    /\ pc = "done_drift"
    /\ window = 3
    /\ threshold.n > 0
    /\ Len(values) > window
    /\ drift_points # <<>>

----------------------------------------------------------------------------
(* Properties of simple_moving_average, forecast_risk and                   *)
(* simulate_policy_change.                                                  *)

Min(a, c) == IF a < c THEN a ELSE c

ForecastReturned == pc \in {"simulate_policy_change", "done_risk"}

\* r is x rounded to a multiple of 10 points (3 decimals)
IsRound3(r, x) ==
    /\ r % 10 = 0
    /\ 2 * Abs(x.n - r * x.d) <= 10 * x.d

C6_HorizonAndDates ==
    (ForecastReturned /\ history # <<>> /\ horizon >= 1) =>
        /\ Len(forecasts) = horizon
        /\ \A k \in 1..Len(forecasts) :
              forecasts[k][1] = history[Len(history)][1] + k

\* C6 witness: a history ending 2025-04-07 (ordinal 739348) forecast over a
\* horizon of 3 gave points dated 2025-04-08, 04-09 and 04-10.
C6_Witness ==
    /\ ForecastReturned
    /\ horizon = 3
    /\ history # <<>>
    /\ history[Len(history)][1] = 739348
    /\ [k \in 1..Len(forecasts) |-> forecasts[k][1]] = <<739349, 739350, 739351>>

C9_EmptyInputError ==
    /\ pc \in {"detect", "scan", "generate_alerts", "done_drift"} => snapshots # <<>>
    /\ (pc = "done_ma" /\ window >= 1) => values # <<>>
    /\ ForecastReturned => history # <<>>
    /\ pc = "raised" =>
          /\ (err.op = "compute_time_series" /\ snapshots = <<>>)
                => err.type = "EmptyInputError"
          /\ (err.op = "simple_moving_average" /\ values = <<>> /\ window >= 1)
                => err.type = "EmptyInputError"
          /\ (err.op = "forecast_risk" /\ history = <<>>)
                => err.type = "EmptyInputError"

\* C10: an out-of-range parameter (detect with window < 1 or threshold <= 0,
\* moving average with window < 1, forecast or simulate with horizon < 1) is
\* rejected with InvalidParameterError: no result, no other error type.
C10_InvalidParameterError ==
    /\ DetectReturned => ValidDetectParams
    /\ pc = "done_ma" => window >= 1
    /\ ForecastReturned => horizon >= 1
    /\ pc = "raised" =>
          /\ (err.op = "detect_drift_zscore" /\ ~ValidDetectParams)
                => err.type = "InvalidParameterError"
          /\ (err.op = "simple_moving_average" /\ window < 1)
                => err.type = "InvalidParameterError"
          /\ (err.op \in {"forecast_risk", "simulate_policy_change"} /\ horizon < 1)
                => err.type = "InvalidParameterError"

----------------------------------------------------------------------------
(* Properties of calls of detect_drift_zscore side by side, of the worked   *)
(* example and of the pipeline.                                             *)

\* both threads' calls have returned and were given the same arguments
SameCall ==
    /\ DetectReturned
    /\ other.pc = "returned"
    /\ other.dates = dates
    /\ other.values = values
    /\ other.window = window
    /\ other.threshold = threshold

\* C11: two calls of detect with identical (dates, values, window, threshold)
\* return identical output, however the steps of the two calls interleave:
\* the buffer and the result list are local to one call.
C11_SameInputSameOutput ==
    SameCall => other.drift_points = drift_points

\* C11 witness: two interleaved calls on [0,0,2,0,1], window 5, threshold
\* 0.5 (|z| of the last index is exactly 0.5) that both flagged it.
C11_Witness ==
    /\ SameCall
    /\ values = <<0, 0, 2, 0, 1>>
    /\ window = 5
    /\ threshold = Rat(1, 2)
    /\ drift_points # <<>>
    /\ other.drift_points # <<>>

\* the call of the worked example: seven 5s then 20, window 7, threshold 2.0
ExampleCall ==
    /\ snapshots = [k \in 1..8 |-> <<k, IF k <= 7 THEN 5 ELSE 20>>]
    /\ window = 7
    /\ threshold = Rat(2, 1)

\* C12: on [5,5,5,5,5,5,5,20], window 7, threshold 2.0, detect emits exactly
\* one drift point, for index 7 (value 20); nothing is flagged while indices
\* 0..6 are scanned (0..5 have no full window, 6 has std 0) and no error.
C12_ExampleFlagsIndex7 ==
    ExampleCall =>
        /\ pc # "raised"
        /\ (pc = "scan" /\ i <= 7) => drift_points = <<>>
        /\ DetectReturned =>
              /\ Len(drift_points) = 1
              /\ drift_points[1][1] = dates[8]
              /\ drift_points[1][2] = 20

\* C12 witness: the example call returned one drift point, of value 20.
C12_Witness ==
    /\ ExampleCall
    /\ pc = "done_drift"
    /\ Len(drift_points) = 1
    /\ drift_points[1][2] = 20
    /\ Len(alerts) = 1

\* r / scale is the fraction x rounded to the nearest multiple of 1 / scale
RoundsTo(x, r, scale) == 2 * Abs(scale * x.n - r * x.d) <= x.d

\* r / scale is the square root of the fraction x, rounded likewise
SqrtRoundsTo(x, r, scale) ==
    /\ (2 * r - 1) * (2 * r - 1) * x.d <= 4 * scale * scale * x.n
    /\ 4 * scale * scale * x.n <= (2 * r + 1) * (2 * r + 1) * x.d

\* C13 as stated: in the example the window ending at index 7 has mean 7.14
\* and std 5.3, and the drift point of index 7 carries the z-score 2.43.
C13_ExampleZScore243 ==
    (ExampleCall /\ DetectReturned) =>
        /\ RoundsTo(mean, 714, 100)
        /\ SqrtRoundsTo(var, 53, 10)
        /\ drift_points # <<>>
        /\ drift_points[Len(drift_points)][3] = 243

\* C13 amended: in the example the window [5,5,5,5,5,5,20] ending at index 7
\* has mean 7.14 and population std 5.25 (5.2 to one decimal), and the
\* z-score of index 7 is 2.45 to two decimals (z^2 = 6), which is the
\* z_score carried by the emitted drift point.
C13_ExampleZScore245 ==
    (ExampleCall /\ DetectReturned) =>
        /\ RoundsTo(mean, 714, 100)
        /\ SqrtRoundsTo(var, 525, 100)
        /\ SqrtRoundsTo(var, 52, 10)
        /\ drift_points # <<>>
        /\ drift_points[Len(drift_points)][3] = 245

\* C13 witness: the example call returned after computing mean = 50/7 over
\* the last window and emitting a drift point for the value 20.
C13_Witness ==
    /\ ExampleCall
    /\ DetectReturned
    /\ 7 * mean.n = 50 * mean.d
    /\ drift_points # <<>>
    /\ drift_points[Len(drift_points)][2] = 20

\* C14: end to end, dates and values have the length of the snapshots and
\* (dates[i], values[i]) is the i-th snapshot; the alerts are one per drift
\* point, in the same (chronological) order, each with that point's date,
\* raw value and rounded z-score; as many alerts as flagged indices.
C14_EndToEnd ==
    /\ pc \in {"detect", "scan", "generate_alerts", "done_drift"} =>
          /\ Len(dates) = Len(snapshots)
          /\ Len(values) = Len(snapshots)
          /\ \A k \in 1..Len(snapshots) : <<dates[k], values[k]>> = snapshots[k]
    /\ pc = "done_drift" =>
          /\ Len(alerts) = Len(drift_points)
          /\ \A j \in 1..Len(alerts) :
                /\ alerts[j].date = drift_points[j][1]
                /\ alerts[j].value = drift_points[j][2]
                /\ alerts[j].z = drift_points[j][3]
          /\ \A j, k \in 1..Len(alerts) : j < k => alerts[j].date < alerts[k].date
          /\ Len(alerts) = Cardinality({k \in 1..Len(values) : Emitted(k)})

\* C14 witness: a finished pipeline with two or more alerts whose values
\* differ from their z-scores.
C14_Witness ==
    /\ pc = "done_drift"
    /\ Len(alerts) >= 2
    /\ alerts[1].date < alerts[2].date
    /\ alerts[1].value # alerts[1].z

\* the last min(k, n) of the first k values of a series
Trailing(vals, k, n) == SubSeq(vals, k - Min(k, n) + 1, k)

\* the buffer b of a scan with window w that has appended k values of vals,
\* and the mean m it has computed last
WindowBuffer(vals, w, k, b, m) ==
    /\ b = Trailing(vals, k, w)
    /\ Len(b) <= w
    /\ m # Unbound => Len(b) = w
    /\ Len(b) = w => (m # Unbound /\ m.n * w = SumSeq(b) * m.d)

\* C15: at every step of a scan with window >= 1, after values[i] is
\* appended the buffer holds exactly the last min(i+1, window) values in
\* series order, never more than window; mean and var are computed only
\* when it holds window values and then over its contents; each call (also
\* one started while another call's buffer is alive) starts from an empty
\* buffer.
C15_WindowBuffer ==
    /\ ((pc = "scan" \/ DetectReturned) /\ window >= 1) =>
          WindowBuffer(values, window, i, buf, mean)
    /\ (other.pc \in {"scan", "returned"} /\ other.window >= 1) =>
          WindowBuffer(other.values, other.window, other.i, other.buf, other.mean)

\* C15 witness: a scan with window 2 that has appended four values and
\* evicted the two oldest, which differ from the two it holds.
C15_Witness ==
    /\ pc = "scan"
    /\ window = 2
    /\ i = 4
    /\ buf = <<values[3], values[4]>>
    /\ <<values[1], values[2]>> # buf
    /\ mean # Unbound

\* the mean of the last min(ForecastWindow, len) scores of a history
FlatBase(hist) ==
    LET m == Min(ForecastWindow, Len(hist))
    IN Rat(SumSeq([k \in 1..m |-> hist[Len(hist) - m + k][2]]), m)

\* C16: every value of one forecast is clamp(base + jitter) for the single
\* base = moving average of the last min(7, len(history)) scores and a jitter
\* of at most 0.02 (200 points): unless clamped it lies within 0.02 of base
\* and any two values differ by at most 0.04, up to the rounding to 3
\* decimals (5 points each).
C16_FlatForecast ==
    (ForecastReturned /\ history # <<>>) =>
        /\ \A k \in 1..Len(forecasts) :
              forecasts[k][2] \in 1..9999 =>
                  Abs(forecasts[k][2] * FlatBase(history).d - FlatBase(history).n)
                      <= 205 * FlatBase(history).d
        /\ \A k, l \in 1..Len(forecasts) :
              Abs(forecasts[k][2] - forecasts[l][2]) <= 410

\* C16 witness: a forecast over a history of 8 days whose oldest score, left
\* out of the average of 7, differs from the others, with two unequal points.
C16_Witness ==
    /\ ForecastReturned
    /\ Len(history) = ForecastWindow + 1
    /\ history[1][2] # history[2][2]
    /\ Len(forecasts) >= 2
    /\ forecasts[1][2] # forecasts[2][2]

\* C17: z^2 <= window - 1 for a point judged by its own window, so with
\* window >= 1 and threshold^2 >= window - 1 (window 5 with threshold 2.0,
\* window 1 with any threshold) detect returns the empty sequence for every
\* series.
C17_InsensitiveWindowFlagsNothing ==
    (/\ DetectReturned
     /\ ValidDetectParams
     /\ threshold.n * threshold.n >= (window - 1) * threshold.d * threshold.d)
        => drift_points = <<>>

============================================================================
